---- MODULE Spec2Model ----
(***************************************************************************)
(* Model of src/automation/browse_human.py: the coroutine main() ->        *)
(* HumanBrowserSimulator.run() -> _setup_browser / browse_like_human /     *)
(* cleanup, executed by asyncio.run (line 316).                            *)
(*                                                                         *)
(* The coroutine is one thread of control.  pc is its position: either the *)
(* await it is suspended on (every await of the source is one position) or *)
(* one of the positions main, loop_check, loop_done, exited.  Code between *)
(* two awaits runs without suspension and is part of the step that         *)
(* completes the first await.                                              *)
(*                                                                         *)
(* Time is counted in tenths of a second, the unit in which every delay    *)
(* bound of the source (0.3, 0.5, 0.8, 1.0, ... seconds) is an integer.    *)
(* Only sleeps advance the clock; driver calls return at the instant they  *)
(* were issued.                                                            *)
(***************************************************************************)
EXTENDS Integers, Sequences, FiniteSets, TLC

VARIABLES
    env,               \* os.environ: the variables _load_config reads
    config,            \* self.config (immutable after construction)
    proxy_settings,    \* the proxy= argument chromium.launch was called with
    progress_log,      \* round numbers of the progress lines logged (line 260)
    summary_log,       \* totals of the summary lines logged (line 272)
    delay_call,        \* arguments, draw and local `delay` of a _human_delay call
    pc,                \* position of the coroutine
    clock,             \* time.time()
    start_time,        \* local of browse_like_human
    end_time,          \* local of browse_like_human
    interaction_count, \* local of browse_like_human
    chosen,            \* chosen_interactions of _random_interactions
    idx,               \* position of the for loop in chosen (1-based)
    px, py,            \* x, y of _simulate_mouse_movement
    inflight,          \* driver commands issued and not yet returned
    browser, context, page,   \* self.browser / self.context / self.page are set
    close_attempted,   \* resources on which close() has been called
    cleanup_calls,     \* number of times cleanup() has been entered
    exc,               \* exception propagating out of run(), or "none"
    failed_at,         \* the await whose Exception no handler of the loop caught
    executed,          \* behaviours of chosen whose execution has begun
    interrupts,        \* operator interrupts (SIGINT) delivered so far
    exit_status        \* process exit status, -1 while running

vars == <<env, config, proxy_settings, progress_log, summary_log, delay_call, pc, clock, start_time, end_time, interaction_count, chosen,
          idx, px, py, inflight, browser, context, page, close_attempted,
          cleanup_calls, exc, failed_at, executed, interrupts, exit_status>>

----------------------------------------------------------------------------
(* Bounds of the model *)

\* operator interrupts delivered in one run
MaxInterrupts == 1

\* rounds whose reading pause is drawn freely
MaxFreeRounds == 3

\* values of DURATION_MINUTES
Durations == {0, 1}

\* draws of np.random.gamma(2, 0.5), in tenths of a second
GammaDraws == {20}

\* largest min_seconds and max_seconds, and largest draw, of a _human_delay
\* call examined on its own
MaxDelayArg == 5
MaxGamma == 6

----------------------------------------------------------------------------
(* Program constants (delays in tenths of a second) *)

SecondsPerMinute == 60
WarmupDelayMin == 20
WarmupDelayMax == 50
ScrollDelayMin == 8
ScrollDelayMax == 25
MoveDelayMin == 3
MoveDelayMax == 10
ClickDelayMin == 5
ClickDelayMax == 15
PauseDelayMin == 10
PauseDelayMax == 40
ReadingDelayMin == 50
ReadingDelayMax == 150
HandlerDelayMin == 10
HandlerDelayMax == 30
ScrollDownMinA == 200
ScrollDownMaxA == 800
ScrollUpMin == 100
ScrollUpMax == 400
ScrollDownMinB == 300
ScrollDownMaxB == 600
ViewportWidth == 1920
ViewportHeight == 1080
PointerMargin == 100
ProgressEvery == 10

\* status of a process ended by an unhandled KeyboardInterrupt (128 + SIGINT)
SigintStatus == 130

----------------------------------------------------------------------------
(* Positions *)

SetupPcs == {"launch", "new_context", "add_init_script", "new_page", "stealth"}
NavPcs == {"goto", "warmup_delay"}
InteractionPcs == {"scroll_eval", "scroll_delay", "mouse_move", "mouse_move_delay",
                   "mouse_click", "mouse_click_delay", "pause_delay"}
RoundPcs == InteractionPcs \cup {"reading_delay"}
\* the await of the except of the loop body, line 270
HandlerPcs == {"error_delay"}
CleanupPcs == {"close_page", "close_context", "close_browser"}
DelayPcs == {"warmup_delay", "scroll_delay", "mouse_move_delay", "mouse_click_delay",
             "pause_delay", "reading_delay", "error_delay"}
AwaitPcs == SetupPcs \cup NavPcs \cup RoundPcs \cup HandlerPcs \cup CleanupPcs
CommandPcs == AwaitPcs \ DelayPcs

Behaviours == {"scroll", "pointer", "pause"}
Resources == {"page", "context", "browser"}

Min(a, b) == IF a <= b THEN a ELSE b

\* a driver command: its name and two arguments (on is the resource a close
\* is called on); every command has the same fields with values of the same
\* kind, so that any two states can be compared
Cmd(op, a, b) == [op |-> op, on |-> "none", a |-> a, b |-> b]

\* r.close()
Close(r) == [op |-> "close", on |-> r, a |-> 0, b |-> 0]

----------------------------------------------------------------------------
(* _load_config, lines 53-67.  A string is the sequence of its characters; *)
(* an environment variable is unset (os.getenv gives None, or the default) *)
(* or set to a string.                                                     *)

Unset == [set |-> FALSE, chars |-> <<>>]
Val(cs) == [set |-> TRUE, chars |-> cs]

\* os.getenv(name, default)
GetEnv(e, name, default) == IF e[name].set THEN e[name].chars ELSE default

Digits == <<"0", "1", "2", "3", "4", "5", "6", "7", "8", "9">>
IsDigit(c) == \E d \in 1..Len(Digits) : Digits[d] = c
DigitValue(c) == (CHOOSE d \in 1..Len(Digits) : Digits[d] = c) - 1

RECURSIVE StripLeft(_)
StripLeft(cs) == IF cs # <<>> /\ Head(cs) = " " THEN StripLeft(Tail(cs)) ELSE cs

RECURSIVE StripRight(_)
StripRight(cs) ==
    IF cs # <<>> /\ cs[Len(cs)] = " "
        THEN StripRight(SubSeq(cs, 1, Len(cs) - 1))
        ELSE cs

RECURSIVE DecimalValue(_)
DecimalValue(ds) ==
    IF ds = <<>> THEN 0
    ELSE Len(Digits) * DecimalValue(SubSeq(ds, 1, Len(ds) - 1)) + DigitValue(ds[Len(ds)])

\* mutant: a value that is no integer is taken as 0
ParseIntLenient(cs) ==
    LET t == StripRight(StripLeft(cs))
        signed == t # <<>> /\ Head(t) \in {"+", "-"}
        ds == IF signed THEN Tail(t) ELSE t
        ok == ds # <<>> /\ \A i \in 1..Len(ds) : IsDigit(ds[i])
    IN  [ok |-> TRUE,
         value |-> IF ~ok THEN 0
                   ELSE IF signed /\ Head(t) = "-" THEN 0 - DecimalValue(ds)
                   ELSE DecimalValue(ds)]

\* int(cs): surrounding blanks are stripped, then an optional sign and one
\* or more decimal digits; anything else raises ValueError (ok is FALSE)
ParseInt(cs) ==
    LET t == StripRight(StripLeft(cs))
        signed == t # <<>> /\ Head(t) \in {"+", "-"}
        ds == IF signed THEN Tail(t) ELSE t
        ok == ds # <<>> /\ \A i \in 1..Len(ds) : IsDigit(ds[i])
    IN  [ok |-> ok,
         value |-> IF ~ok THEN 0
                   ELSE IF signed /\ Head(t) = "-" THEN 0 - DecimalValue(ds)
                   ELSE DecimalValue(ds)]

\* the defaults of lines 57, 64, 65
DefaultDurationMinutes == <<"5">>
DefaultViewportWidth == <<"1", "9", "2", "0">>
DefaultViewportHeight == <<"1", "0", "8", "0">>

\* _load_config: ok is FALSE when an int() of lines 57, 64, 65 raises
LoadConfig(e) ==
    LET d == ParseInt(GetEnv(e, "DURATION_MINUTES", DefaultDurationMinutes))
        w == ParseInt(GetEnv(e, "VIEWPORT_WIDTH", DefaultViewportWidth))
        h == ParseInt(GetEnv(e, "VIEWPORT_HEIGHT", DefaultViewportHeight))
    IN  [ok |-> d.ok /\ w.ok /\ h.ok,
         config |-> [duration_minutes |-> d.value,
                     proxy_host |-> e.PROXY_HOST,
                     proxy_port |-> e.PROXY_PORT,
                     proxy_username |-> e.PROXY_USERNAME,
                     proxy_password |-> e.PROXY_PASSWORD,
                     viewport_width |-> w.value,
                     viewport_height |-> h.value]]

\* self.config before _load_config has returned
NoConfig == [resolved |-> FALSE]

----------------------------------------------------------------------------
(* _create_proxy_settings, lines 69-86 *)

\* truth value of an os.getenv result: None and "" are false
Truthy(v) == v.set /\ v.chars # <<>>

\* proxy=None
NoProxy == [enabled |-> FALSE, server |-> <<>>, username |-> Unset, password |-> Unset]

HttpScheme == <<"h", "t", "t", "p", ":", "/", "/">>

\* mutant: any() for all(), and each credential added on its own
CreateProxySettingsPartial(cfg) ==
    IF ~(Truthy(cfg.proxy_host) \/ Truthy(cfg.proxy_port))
        THEN NoProxy
        ELSE [enabled |-> TRUE,
              server |-> HttpScheme \o cfg.proxy_host.chars \o <<":">> \o cfg.proxy_port.chars,
              username |-> IF Truthy(cfg.proxy_username) THEN cfg.proxy_username ELSE Unset,
              password |-> IF Truthy(cfg.proxy_password) THEN cfg.proxy_password ELSE Unset]

\* the dict returned, or None (enabled is FALSE); a key the dict does not
\* hold is Unset
CreateProxySettings(cfg) ==
    IF ~(Truthy(cfg.proxy_host) /\ Truthy(cfg.proxy_port))
        THEN NoProxy
        ELSE LET creds == Truthy(cfg.proxy_username) /\ Truthy(cfg.proxy_password) IN
             [enabled |-> TRUE,
              server |-> HttpScheme \o cfg.proxy_host.chars \o <<":">> \o cfg.proxy_port.chars,
              username |-> IF creds THEN cfg.proxy_username ELSE Unset,
              password |-> IF creds THEN cfg.proxy_password ELSE Unset]

----------------------------------------------------------------------------
(* The state as a record, so that the code between two awaits can be       *)
(* written as operators from a state to the set of states it may lead to.  *)

State ==
    [config |-> config, proxy_settings |-> proxy_settings,
     progress_log |-> progress_log, summary_log |-> summary_log, pc |-> pc, clock |-> clock, start_time |-> start_time,
     end_time |-> end_time, interaction_count |-> interaction_count,
     chosen |-> chosen, idx |-> idx, px |-> px, py |-> py, inflight |-> inflight,
     browser |-> browser, context |-> context, page |-> page,
     close_attempted |-> close_attempted, cleanup_calls |-> cleanup_calls,
     exc |-> exc, failed_at |-> failed_at, executed |-> executed,
     interrupts |-> interrupts,
     exit_status |-> exit_status]

Become(t) ==
    /\ UNCHANGED <<env, delay_call>>
    /\ config' = t.config
    /\ proxy_settings' = t.proxy_settings
    /\ progress_log' = t.progress_log
    /\ summary_log' = t.summary_log
    /\ pc' = t.pc
    /\ clock' = t.clock
    /\ start_time' = t.start_time
    /\ end_time' = t.end_time
    /\ interaction_count' = t.interaction_count
    /\ chosen' = t.chosen
    /\ idx' = t.idx
    /\ px' = t.px
    /\ py' = t.py
    /\ inflight' = t.inflight
    /\ browser' = t.browser
    /\ context' = t.context
    /\ page' = t.page
    /\ close_attempted' = t.close_attempted
    /\ cleanup_calls' = t.cleanup_calls
    /\ exc' = t.exc
    /\ failed_at' = t.failed_at
    /\ executed' = t.executed
    /\ interrupts' = t.interrupts
    /\ exit_status' = t.exit_status

\* issue a driver command and suspend on it at position p
Issue(s, p, c) == [s EXCEPT !.pc = p, !.inflight = @ \cup {c}]

\* mutant: the command is not awaited, it stays in flight
CompleteKeeps(s) == s

\* the awaited driver command has returned (or raised, or was cancelled)
Complete(s) == [s EXCEPT !.inflight = {}]

\* suspend in asyncio.sleep at position p
Sleep(s, p) == [s EXCEPT !.pc = p]

----------------------------------------------------------------------------
(* _human_delay, lines 173-178 *)

\* mutant: the delay is not capped
HumanDelayUncapped(min_seconds, max_seconds, gamma) == gamma + min_seconds

HumanDelay(min_seconds, max_seconds, gamma) == Min(gamma + min_seconds, max_seconds)

\* the states after the sleep of _human_delay(lo, hi) has elapsed
Slept(s, lo, hi) ==
    {[s EXCEPT !.clock = @ + HumanDelay(lo, hi, g)] : g \in GammaDraws}

----------------------------------------------------------------------------
(* main, lines 300-313, and asyncio.run, line 316 *)

\* run() has returned or raised s.exc into main()
MainExit(s) ==
    LET t == [s EXCEPT !.pc = "exited", !.inflight = {}] IN
    IF s.exc = "none"
        THEN [t EXCEPT !.exit_status = 0]
    ELSE IF s.exc = "Exception"
        THEN [t EXCEPT !.exit_status = 1]
    \* CancelledError is no Exception and no KeyboardInterrupt inside main();
    \* asyncio.run raises KeyboardInterrupt at module level, where nothing
    \* catches it
    ELSE [t EXCEPT !.exit_status = SigintStatus]

----------------------------------------------------------------------------
(* cleanup, lines 278-289, called from the finally of run, lines 297-298 *)

IsSet(s, r) ==
    CASE r = "page" -> s.page
      [] r = "context" -> s.context
      [] r = "browser" -> s.browser

ClosePc(r) ==
    CASE r = "page" -> "close_page"
      [] r = "context" -> "close_context"
      [] r = "browser" -> "close_browser"

\* cleanup() returns into the finally of run(): the pending exception, if
\* any, resumes propagating into main()
CleanupReturn(s) == MainExit(s)

\* the body of the try of cleanup, from the `if` of the first resource of rs on
RECURSIVE CleanupFrom(_, _)
CleanupFrom(s, rs) ==
    IF rs = <<>> THEN CleanupReturn(s)
    ELSE IF IsSet(s, Head(rs))
        THEN [Issue(s, ClosePc(Head(rs)), Close(Head(rs)))
                 EXCEPT !.close_attempted = @ \cup {Head(rs)}]
    ELSE CleanupFrom(s, Tail(rs))

\* the resources cleanup still has to look at after the close at position p
\* has returned
RestAfter(p) ==
    CASE p = "close_page" -> <<"context", "browser">>
      [] p = "close_context" -> <<"browser">>
      [] p = "close_browser" -> <<>>

\* mutant: the try of cleanup is retried until it succeeds
CloseFailedRetries(s) == CleanupFrom(s, <<"page", "context", "browser">>)

\* the close awaited at s.pc raised an Exception: except of line 288
CloseFailed(s) == CleanupReturn(s)

\* mutant: cleanup starts with the browser
EnterCleanupBrowserFirst(s) ==
    CleanupFrom([s EXCEPT !.cleanup_calls = @ + 1,
                          !.start_time = 0, !.end_time = 0,
                          !.interaction_count = 0, !.chosen = <<>>, !.idx = 0,
                          !.executed = <<>>, !.px = 0, !.py = 0],
                <<"browser", "context", "page">>)

\* the finally of run(), lines 297-298: browse_like_human's locals are gone
EnterCleanup(s) ==
    CleanupFrom([s EXCEPT !.cleanup_calls = @ + 1,
                          !.start_time = 0, !.end_time = 0,
                          !.interaction_count = 0, !.chosen = <<>>, !.idx = 0,
                          !.executed = <<>>, !.px = 0, !.py = 0],
                <<"page", "context", "browser">>)

----------------------------------------------------------------------------
(* _human_scroll 180-196, _simulate_mouse_movement 198-213,                *)
(* _random_interactions 215-231, loop body of browse_like_human 253-270    *)

\* random.randint(lo, hi), sampled at its two ends; empty when lo > hi,
\* where randint raises ValueError
RandInt(lo, hi) == IF lo <= hi THEN {lo, hi} ELSE {}

\* mutant: the pointer is sampled over the whole viewport
PointerRangeNoMargin(size) == RandInt(0, size)

\* lines 203-204: random.randint(100, size - 100)
PointerRange(size) == RandInt(PointerMargin, size - PointerMargin)

\* the dy of window.scrollBy(0, dy): random.choice of the three patterns
ScrollDeltas ==
    RandInt(ScrollDownMinA, ScrollDownMaxA)
        \cup {0 - a : a \in RandInt(ScrollUpMin, ScrollUpMax)}
        \cup RandInt(ScrollDownMinB, ScrollDownMaxB)

\* mutant: random.choices, sampling with replacement
SampleWithReplacement(k) == [1..k -> Behaviours]

\* random.sample(interactions, k): the orderings of k distinct behaviours
Sample(k) ==
    {q \in [1..k -> Behaviours] : \A i, j \in 1..k : i # j => q[i] # q[j]}

\* random.randint(1, 3) and random.sample, lines 224-225
ChosenInteractions == UNION {Sample(k) : k \in 1..3}

\* random.random() < 0.2 of line 265, after round n.  The first
\* MaxFreeRounds rounds draw freely; the rounds after them draw the pause.
ReadingPause(n) == IF n <= MaxFreeRounds THEN BOOLEAN ELSE {TRUE}

\* mutant: the progress line is logged after the first round of every ten
ProgressDueAfterFirst(n) == n % ProgressEvery = 1

\* line 259
ProgressDue(n) == n % ProgressEvery = 0

\* mutant: the counter counts the behaviours of the round
RoundEndCountsBehaviours(s) ==
    LET n == s.interaction_count + Len(s.chosen)
        t == [s EXCEPT !.interaction_count = n, !.chosen = <<>>, !.idx = 0,
                       !.executed = <<>>,
                       !.progress_log = IF ProgressDue(n) THEN Append(@, n) ELSE @]
    IN  {IF read THEN Sleep(t, "reading_delay") ELSE [t EXCEPT !.pc = "loop_check"] :
             read \in ReadingPause(n)}

\* lines 256-266: the round is over
RoundEnd(s) ==
    LET n == s.interaction_count + 1
        t == [s EXCEPT !.interaction_count = n, !.chosen = <<>>, !.idx = 0,
                       !.executed = <<>>,
                       !.progress_log = IF ProgressDue(n) THEN Append(@, n) ELSE @]
    IN  {IF read THEN Sleep(t, "reading_delay") ELSE [t EXCEPT !.pc = "loop_check"] :
             read \in ReadingPause(n)}

RECURSIVE StartInteraction(_)

\* the for loop of line 227 moves on from chosen[idx]
AfterInteraction(s) ==
    IF s.idx < Len(s.chosen)
        THEN StartInteraction([s EXCEPT !.idx = @ + 1, !.px = 0, !.py = 0,
                                        !.executed = Append(@, s.chosen[s.idx + 1])])
        ELSE RoundEnd([s EXCEPT !.px = 0, !.py = 0])

\* mutant: the try encloses the for loop, a failure ends the round
InteractionFailedEndsRound(s) == RoundEnd([s EXCEPT !.px = 0, !.py = 0])

\* except of lines 230-231
InteractionFailed(s) == AfterInteraction(s)

\* the call interaction() of line 229 for chosen[idx], up to its first await
StartInteraction(s) ==
    LET b == s.chosen[s.idx] IN
    IF b = "scroll"
        THEN {Issue(s, "scroll_eval", Cmd("scroll_by", 0, dy)) : dy \in ScrollDeltas}
    ELSE IF b = "pointer"
        THEN LET xs == PointerRange(s.config.viewport_width)
                 ys == PointerRange(s.config.viewport_height)
             IN  IF xs = {} \/ ys = {}
                     THEN InteractionFailed(s)
                     ELSE {Issue([s EXCEPT !.px = x, !.py = y], "mouse_move",
                                 Cmd("move", x, y)) : x \in xs, y \in ys}
    ELSE {Sleep(s, "pause_delay")}

\* lines 253-255: a round starts
StartRound(s) ==
    UNION {AfterInteraction([s EXCEPT !.chosen = q, !.idx = 0]) :
               q \in ChosenInteractions}

----------------------------------------------------------------------------
(* Exceptions *)

\* mutant: the loop body has no try of its own
LoopBodyFailedAborts(s) == {EnterCleanup([s EXCEPT !.exc = "Exception"])}

\* except of lines 268-270, up to its await
LoopBodyFailed(s) == {Sleep(s, "error_delay")}

\* mutant: cleanup is called at the end of the try of run, not in a finally
PropagateNoFinally(s, k) ==
    IF k = "Exception" /\ s.pc \in InteractionPcs
        THEN InteractionFailed(s)
    ELSE IF k = "Exception" /\ s.pc = "reading_delay"
        THEN LoopBodyFailed(s)
    ELSE IF k = "Exception" /\ s.pc \in CleanupPcs
        THEN {CloseFailed(s)}
    ELSE {MainExit([s EXCEPT !.exc = k])}

\* mutant: the except of line 274 logs and does not re-raise, inside the try
\* of the loop body
PropagateNavigationSwallowed(s, k) ==
    IF k = "Exception" /\ s.pc \in InteractionPcs
        THEN InteractionFailed(s)
    ELSE IF k = "Exception" /\ s.pc = "reading_delay"
        THEN LoopBodyFailed(s)
    ELSE IF k = "Exception" /\ s.pc \in CleanupPcs
        THEN {CloseFailed(s)}
    ELSE IF s.pc \in CleanupPcs
        THEN {MainExit([s EXCEPT !.exc = k])}
    ELSE IF k = "Exception" /\ s.pc = "goto"
        THEN {Sleep(s, "warmup_delay")}
    ELSE {EnterCleanup([s EXCEPT !.exc = k])}

\* the handler that an exception of kind k raised by the await at s.pc
\* reaches: except of 230, 268, 274 (which re-raises), 288, finally of 297
Propagate(s, k) ==
    IF k = "Exception" /\ s.pc \in InteractionPcs
        THEN InteractionFailed(s)
    ELSE IF k = "Exception" /\ s.pc = "reading_delay"
        THEN LoopBodyFailed(s)
    ELSE IF k = "Exception" /\ s.pc \in CleanupPcs
        THEN {CloseFailed(s)}
    ELSE IF s.pc \in CleanupPcs
        \* out of cleanup and of the finally that called it
        THEN {MainExit([s EXCEPT !.exc = k])}
    ELSE {EnterCleanup([s EXCEPT !.exc = k])}

\* the awaits whose Exception no handler but the re-raising one of line 274
\* and the finally of run() is around
FatalPcs == SetupPcs \cup NavPcs \cup HandlerPcs

\* an exception of kind k is raised by the await at s.pc
Raise(s, k) ==
    LET t == Complete(s) IN
    Propagate(IF k = "Exception" /\ s.pc \in FatalPcs
                  THEN [t EXCEPT !.failed_at = s.pc] ELSE t, k)

----------------------------------------------------------------------------
\* no call of _human_delay is being examined on its own
NoDelayCall ==
    [min_seconds |-> 0, max_seconds |-> 0, gamma |-> 0, delay |-> 0, slept |-> FALSE]

\* an environment that sets DURATION_MINUTES, VIEWPORT_WIDTH and
\* VIEWPORT_HEIGHT to d, w, h and no proxy variable
EnvOf(d, w, h) ==
    [DURATION_MINUTES |-> d, PROXY_HOST |-> Unset, PROXY_PORT |-> Unset,
     PROXY_USERNAME |-> Unset, PROXY_PASSWORD |-> Unset,
     VIEWPORT_WIDTH |-> w, VIEWPORT_HEIGHT |-> h]

\* the environments of Spec: a duration of Durations, the default viewport
MainEnvs == {EnvOf(Val(<<Digits[d + 1]>>), Unset, Unset) : d \in Durations}

\* the state in which the process is at position p with environment e and
\* self.config c, before anything else has happened
InitAt(e, c, p) ==
    /\ env = e
    /\ config = c
    /\ proxy_settings = NoProxy
    /\ progress_log = <<>>
    /\ summary_log = <<>>
    /\ pc = p
    /\ clock = 0
    /\ start_time = 0
    /\ end_time = 0
    /\ interaction_count = 0
    /\ chosen = <<>>
    /\ idx = 0
    /\ px = 0
    /\ py = 0
    /\ inflight = {}
    /\ browser = FALSE
    /\ context = FALSE
    /\ page = FALSE
    /\ close_attempted = {}
    /\ cleanup_calls = 0
    /\ exc = "none"
    /\ failed_at = "none"
    /\ executed = <<>>
    /\ interrupts = 0
    /\ exit_status = -1

\* the simulator has been constructed (line 302)
Init ==
    /\ \E e \in MainEnvs : InitAt(e, LoadConfig(e).config, "main")
    /\ delay_call = NoDelayCall

\* lines 302-305, 293-295, 90-118: up to the await of chromium.launch
Start ==
    /\ pc = "main"
    /\ Become(Issue([State EXCEPT !.proxy_settings = CreateProxySettings(config)],
                     "launch", Cmd("launch", 0, 0)))

\* an awaited driver call returns ok or raises
Returns(ok, Continue(_)) ==
    \E t \in (IF ok THEN Continue(Complete(State)) ELSE Raise(State, "Exception")) :
        Become(t)

\* lines 118-148
LaunchDone(s) == {Issue([s EXCEPT !.browser = TRUE], "new_context", Cmd("new_context", 0, 0))}
Launch == pc = "launch" /\ \E ok \in BOOLEAN : Returns(ok, LaunchDone)

\* lines 148-151
NewContextDone(s) ==
    {Issue([s EXCEPT !.context = TRUE], "add_init_script", Cmd("add_init_script", 0, 0))}
NewContext == pc = "new_context" /\ \E ok \in BOOLEAN : Returns(ok, NewContextDone)

\* lines 151-166
AddInitScriptDone(s) == {Issue(s, "new_page", Cmd("new_page", 0, 0))}
AddInitScript == pc = "add_init_script" /\ \E ok \in BOOLEAN : Returns(ok, AddInitScriptDone)

\* lines 166-169
NewPageDone(s) == {Issue([s EXCEPT !.page = TRUE], "stealth", Cmd("stealth", 0, 0))}
NewPage == pc = "new_page" /\ \E ok \in BOOLEAN : Returns(ok, NewPageDone)

\* lines 169-171, 296, 236-240
StealthDone(s) ==
    {Issue(s, "goto", Cmd("goto", 0, 0))}
Stealth == pc = "stealth" /\ \E ok \in BOOLEAN : Returns(ok, StealthDone)

\* lines 240-241
GotoDone(s) == {Sleep(s, "warmup_delay")}
Goto == pc = "goto" /\ \E ok \in BOOLEAN : Returns(ok, GotoDone)

\* mutant: `duration or default`, a duration of 0 taken as unset
EndTimeZeroIsUnset(start, minutes) ==
    start + (IF minutes = 0 THEN 1 ELSE minutes) * SecondsPerMinute * 10

\* line 248
EndTime(start, minutes) == start + minutes * SecondsPerMinute * 10

\* lines 241-250
WarmupDone(s) ==
    {[t EXCEPT
          !.pc = "loop_check",
          !.start_time = t.clock,
          !.end_time = EndTime(t.clock, t.config.duration_minutes),
          !.interaction_count = 0] : t \in Slept(s, WarmupDelayMin, WarmupDelayMax)}
WarmupDelay == pc = "warmup_delay" /\ Returns(TRUE, WarmupDone)

\* mutant: <= for <
BudgetLeftInclusive(s) == s.clock <= s.end_time

\* line 253
BudgetLeft(s) == s.clock < s.end_time

\* lines 253-255, 217-229
RoundStart ==
    /\ pc = "loop_check"
    /\ BudgetLeft(State)
    /\ \E t \in StartRound(State) : Become(t)

\* lines 253, 272
LoopExit ==
    /\ pc = "loop_check"
    /\ ~BudgetLeft(State)
    /\ Become([State EXCEPT !.pc = "loop_done",
                             !.summary_log = Append(@, interaction_count)])

\* browse_like_human returns; finally of run, lines 297-298
BrowseReturn ==
    /\ pc = "loop_done"
    /\ Become(EnterCleanup(State))

\* lines 192-196
ScrollEvalDone(s) == {Sleep(s, "scroll_delay")}
ScrollEval == pc = "scroll_eval" /\ \E ok \in BOOLEAN : Returns(ok, ScrollEvalDone)

\* line 196
ScrollDelayDone(s) == UNION {AfterInteraction(t) : t \in Slept(s, ScrollDelayMin, ScrollDelayMax)}
ScrollDelay == pc = "scroll_delay" /\ Returns(TRUE, ScrollDelayDone)

\* lines 207-208
MouseMoveDone(s) == {Sleep(s, "mouse_move_delay")}
MouseMove == pc = "mouse_move" /\ \E ok \in BOOLEAN : Returns(ok, MouseMoveDone)

\* mutant: the click is issued at (y, x)
MouseMoveDelayDoneClickSwapped(s) ==
    UNION {{Issue(t, "mouse_click", Cmd("click", t.py, t.px))} \cup AfterInteraction(t) :
               t \in Slept(s, MoveDelayMin, MoveDelayMax)}

\* lines 208-212
MouseMoveDelayDone(s) ==
    UNION {{Issue(t, "mouse_click", Cmd("click", t.px, t.py))} \cup AfterInteraction(t) :
               t \in Slept(s, MoveDelayMin, MoveDelayMax)}
MouseMoveDelay == pc = "mouse_move_delay" /\ Returns(TRUE, MouseMoveDelayDone)

\* lines 212-213
MouseClickDone(s) == {Sleep(s, "mouse_click_delay")}
MouseClick == pc = "mouse_click" /\ \E ok \in BOOLEAN : Returns(ok, MouseClickDone)

\* line 213
MouseClickDelayDone(s) ==
    UNION {AfterInteraction(t) : t \in Slept(s, ClickDelayMin, ClickDelayMax)}
MouseClickDelay == pc = "mouse_click_delay" /\ Returns(TRUE, MouseClickDelayDone)

\* line 220
PauseDelayDone(s) ==
    UNION {AfterInteraction(t) : t \in Slept(s, PauseDelayMin, PauseDelayMax)}
PauseDelay == pc = "pause_delay" /\ Returns(TRUE, PauseDelayDone)

\* line 266
ReadingDelayDone(s) ==
    {[t EXCEPT !.pc = "loop_check"] : t \in Slept(s, ReadingDelayMin, ReadingDelayMax)}
ReadingDelay == pc = "reading_delay" /\ Returns(TRUE, ReadingDelayDone)

\* lines 281-287: the close awaited at s.pc has returned
CloseDone(s) == {CleanupFrom(s, RestAfter(s.pc))}
ClosePage == pc = "close_page" /\ \E ok \in BOOLEAN : Returns(ok, CloseDone)
CloseContext == pc = "close_context" /\ \E ok \in BOOLEAN : Returns(ok, CloseDone)
CloseBrowser == pc = "close_browser" /\ \E ok \in BOOLEAN : Returns(ok, CloseDone)

\* SIGINT while the coroutine is suspended: asyncio.run cancels the main
\* task, CancelledError is raised at the await
Interrupt ==
    /\ pc \in AwaitPcs
    /\ interrupts < MaxInterrupts
    /\ \E t \in Raise([State EXCEPT !.interrupts = @ + 1], "CancelledError") : Become(t)

Step ==
    \/ Start
    \/ Launch
    \/ NewContext
    \/ AddInitScript
    \/ NewPage
    \/ Stealth
    \/ Goto
    \/ WarmupDelay
    \/ RoundStart
    \/ LoopExit
    \/ BrowseReturn
    \/ ScrollEval
    \/ ScrollDelay
    \/ MouseMove
    \/ MouseMoveDelay
    \/ MouseClick
    \/ MouseClickDelay
    \/ PauseDelay
    \/ ReadingDelay
    \/ ClosePage
    \/ CloseContext
    \/ CloseBrowser

Next == Step \/ Interrupt

Spec == Init /\ [][Next]_vars

\* the event loop resumes the coroutine whenever the await it is suspended on
\* has returned
FairSpec == Spec /\ WF_vars(Step)

----------------------------------------------------------------------------
(* The program from before the construction of the simulator (line 302),   *)
(* for environments that set the proxy variables in every combination and  *)
(* the integer variables to well-formed and malformed strings.             *)

\* values of a proxy variable: unset, empty, a one-character string
Settings(c) == {Unset, Val(<<>>), Val(<<c>>)}

\* strings int() raises ValueError on
MalformedInts == {<<>>, <<"a">>, <<"1", ".", "5">>, <<"1", " ", "0">>, <<"-">>}

DurationSamples ==
    {Unset, Val(<<"0">>), Val(<<"1">>), Val(<<" ", "0", " ">>), Val(<<"-", "1">>)}
        \cup {Val(cs) : cs \in MalformedInts}
WidthSamples == {Unset, Val(<<"a">>)}
HeightSamples == {Unset, Val(<<"1", ".", "5">>)}

\* the default duration of 5 minutes is left out: it is beyond Durations
ConfigEnvs ==
    {[EnvOf(Val(<<"0">>), Unset, Unset) EXCEPT
          !.PROXY_HOST = ph, !.PROXY_PORT = pp,
          !.PROXY_USERNAME = pu, !.PROXY_PASSWORD = pw] :
        ph \in Settings("h"), pp \in Settings("8"),
        pu \in Settings("u"), pw \in Settings("p")}
    \cup ({EnvOf(d, w, h) : d \in DurationSamples, w \in WidthSamples,
                            h \in HeightSamples}
              \ {EnvOf(Unset, Unset, Unset)})

ConfigInit ==
    /\ \E e \in ConfigEnvs : InitAt(e, NoConfig, "construct")
    /\ delay_call = NoDelayCall

\* line 302: HumanBrowserSimulator() is outside the try of main, so a
\* ValueError of _load_config leaves main() and asyncio.run uncaught
Construct ==
    /\ pc = "construct"
    /\ LET r == LoadConfig(env) IN
       Become(IF r.ok
                  THEN [State EXCEPT !.config = r.config, !.pc = "main"]
                  ELSE [State EXCEPT !.pc = "exited", !.exc = "Exception",
                                     !.exit_status = 1])

ConfigNext == Construct \/ Next

ConfigSpec == ConfigInit /\ [][ConfigNext]_vars

----------------------------------------------------------------------------
(* The program for viewports at and below the size at which a position     *)
(* with the margin exists, next to the default one.                        *)

ViewportSamples ==
    {<<Unset, Unset>>,
     <<Val(<<"2", "0", "0">>), Val(<<"2", "0", "0">>)>>,
     <<Val(<<"1", "5", "0">>), Unset>>,
     <<Unset, Val(<<"1", "9", "9">>)>>}

ViewportEnvs ==
    {EnvOf(Val(<<Digits[d + 1]>>), v[1], v[2]) : d \in Durations, v \in ViewportSamples}

ViewportInit ==
    /\ \E e \in ViewportEnvs : InitAt(e, LoadConfig(e).config, "main")
    /\ delay_call = NoDelayCall

ViewportSpec == ViewportInit /\ [][Next]_vars

----------------------------------------------------------------------------
(* One call of _human_delay on its own, for every min_seconds <=           *)
(* max_seconds and every draw up to the bounds.                            *)

DelayInit ==
    /\ InitAt(EnvOf(Unset, Unset, Unset), LoadConfig(EnvOf(Unset, Unset, Unset)).config,
              "main")
    /\ \E lo \in 0..MaxDelayArg : \E hi \in lo..MaxDelayArg : \E g \in 0..MaxGamma :
           delay_call = [min_seconds |-> lo, max_seconds |-> hi, gamma |-> g,
                         delay |-> 0, slept |-> FALSE]

\* lines 175-178: the delay is computed and slept
HumanDelayCall ==
    /\ ~delay_call.slept
    /\ LET d == HumanDelay(delay_call.min_seconds, delay_call.max_seconds,
                           delay_call.gamma)
       IN  /\ delay_call' = [delay_call EXCEPT !.delay = d, !.slept = TRUE]
           /\ clock' = clock + d
    /\ UNCHANGED <<env, config, proxy_settings, progress_log, summary_log, pc,
                   start_time, end_time, interaction_count, chosen, idx, px, py,
                   inflight, browser, context, page, close_attempted,
                   cleanup_calls, exc, failed_at, executed, interrupts, exit_status>>

DelaySpec == DelayInit /\ [][HumanDelayCall]_vars

----------------------------------------------------------------------------
(* The program with an Exception raised by the awaits of the loop body     *)
(* that are outside the try of _random_interactions: the reading pause of  *)
(* line 266 and the delay of the handler, line 270.                        *)

\* line 266 raises: except of line 268
ReadingDelayRaises == pc = "reading_delay" /\ Returns(FALSE, ReadingDelayDone)

\* line 270, then back to line 253
ErrorDelayDone(s) ==
    {[t EXCEPT !.pc = "loop_check"] : t \in Slept(s, HandlerDelayMin, HandlerDelayMax)}
ErrorDelay == pc = "error_delay" /\ \E ok \in BOOLEAN : Returns(ok, ErrorDelayDone)

FaultNext == Next \/ ReadingDelayRaises \/ ErrorDelay

FaultSpec == Init /\ [][FaultNext]_vars

----------------------------------------------------------------------------
(* Properties *)

TeardownPcs == CleanupPcs \cup {"exited"}

\* the first await of a behaviour, and all its awaits
FirstPc(b) ==
    CASE b = "scroll" -> "scroll_eval"
      [] b = "pointer" -> "mouse_move"
      [] b = "pause" -> "pause_delay"
PcsOf(b) ==
    CASE b = "scroll" -> {"scroll_eval", "scroll_delay"}
      [] b = "pointer" -> {"mouse_move", "mouse_move_delay", "mouse_click",
                           "mouse_click_delay"}
      [] b = "pause" -> {"pause_delay"}

Distinct(q) == \A i, j \in 1..Len(q) : i # j => q[i] # q[j]

BehaviourOps == {"scroll_by", "move", "click"}

\* C1: cleanup() is entered exactly once in every run: never before run()
\* leaves its try, once by the time teardown is running, and still once when
\* the process has exited, whatever made run() leave the try (time
\* exhaustion, a failed action, a failed navigation, a failed setup step).
C1_TeardownExactlyOnce ==
    /\ cleanup_calls \in {0, 1}
    /\ pc \in TeardownPcs => cleanup_calls = 1
    /\ pc \notin TeardownPcs => cleanup_calls = 0

\* a run of one minute that ended by time exhaustion and was torn down once
C1_Witness ==
    /\ pc = "exited"
    /\ config.duration_minutes = 1
    /\ exc = "none"
    /\ clock >= EndTime(0, 1)
    /\ cleanup_calls = 1

\* the step leaves the await of a driver command of a behaviour by an
\* Exception: it is no interrupt and does not go on to the delay that
\* follows the command
ActionFails ==
    /\ pc \in {"scroll_eval", "mouse_move", "mouse_click"}
    /\ interrupts' = interrupts
    /\ pc' # (CASE pc = "scroll_eval" -> "scroll_delay"
                [] pc = "mouse_move" -> "mouse_move_delay"
                [] pc = "mouse_click" -> "mouse_click_delay")

\* C2: when a behaviour of a round raises, the step that handles the error
\* goes on to the next chosen behaviour (same chosen list, next index, that
\* behaviour's first await), or, after the last chosen behaviour, completes
\* the round (the counter is incremented, the loop goes on to its reading
\* pause or its next time check); it never leaves the loop.
C2_FailureIsolated ==
    [][ActionFails =>
          /\ exc' = "none"
          /\ cleanup_calls' = 0
          /\ idx < Len(chosen) =>
                /\ chosen' = chosen
                /\ idx' = idx + 1
                /\ executed' = Append(executed, chosen[idx + 1])
                /\ pc' = FirstPc(chosen[idx + 1])
                /\ interaction_count' = interaction_count
          /\ idx >= Len(chosen) =>
                /\ interaction_count' = interaction_count + 1
                /\ pc' \in {"loop_check", "reading_delay"}]_vars

\* in the first round the scroll chosen first has failed (no sleep has
\* elapsed since the loop began) and the pause chosen second is executing
C2_Witness ==
    /\ pc = "pause_delay"
    /\ interaction_count = 0
    /\ chosen = <<"scroll", "pause">>
    /\ executed = <<"scroll", "pause">>
    /\ idx = 2
    /\ clock = start_time

\* C3 (as claimed): in a run without interrupt in which page, context and
\* browser exist, a close has been attempted on each of the three by the
\* time the process exits.
C3_EveryResourceClosed ==
    (pc = "exited" /\ interrupts = 0 /\ page /\ context /\ browser)
        => close_attempted = Resources

\* C4: once page.goto has raised, the run is in teardown or has exited:
\* cleanup has been entered once, no round has been executed, no scroll, move
\* or click is in flight, and the exit status is not 0.
C4_NavigationFailureAborts ==
    failed_at = "goto" =>
        /\ pc \in TeardownPcs
        /\ cleanup_calls = 1
        /\ interaction_count = 0
        /\ chosen = <<>>
        /\ executed = <<>>
        /\ \A c \in inflight : c.op = "close"
        /\ pc = "exited" => exit_status \notin {-1, 0}

C4_Witness ==
    /\ failed_at = "goto"
    /\ pc = "exited"
    /\ exit_status = 1
    /\ close_attempted = Resources

\* C5: the behaviours chosen for a round are between 1 and 3 behaviours of
\* the catalog, all distinct; the behaviours whose execution has begun are
\* the first idx of them, so none is executed twice; and the step that ends
\* a round has executed each of them.
C5_OneToThreeDistinct ==
    /\ [](pc \in InteractionPcs =>
            /\ Len(chosen) \in 1..3
            /\ \A i \in 1..Len(chosen) : chosen[i] \in Behaviours
            /\ Distinct(chosen)
            /\ Len(executed) \in 1..3
            /\ Distinct(executed))
    /\ [][interaction_count' = interaction_count + 1 =>
            /\ Len(executed) \in 1..3
            /\ Distinct(executed)
            /\ executed = chosen]_vars

\* a round of three behaviours executing its third
C5_Witness ==
    /\ pc \in InteractionPcs
    /\ Len(chosen) = 3
    /\ idx = 3
    /\ executed = chosen

\* the longest a round can sleep
MaxRoundTime ==
    ScrollDelayMax + MoveDelayMax + ClickDelayMax + PauseDelayMax + ReadingDelayMax

\* C6: the budget is looked at only between rounds.  A round starts only
\* while clock < end_time; the loop ends only when clock >= end_time; a step
\* inside a round never leaves the round for anything but the next time
\* check, unless an interrupt or teardown of a fatal error takes it; and
\* when the loop ends the clock is less than one round past end_time.
C6_BudgetAtRoundBoundaries ==
    /\ [](pc = "loop_done" =>
            /\ clock >= end_time
            /\ clock - end_time < MaxRoundTime)
    /\ [][/\ (pc = "loop_check" /\ pc' # "loop_done") => clock < end_time
          /\ pc' = "loop_done" => (pc = "loop_check" /\ clock >= end_time)
          /\ (pc \in RoundPcs /\ interrupts' = interrupts)
                => pc' \in RoundPcs \cup {"loop_check"}]_vars

\* a round that has run past end_time takes its reading pause all the same
C6_Witness ==
    /\ pc = "reading_delay"
    /\ interaction_count > 0
    /\ clock > end_time

\* C7: with DURATION_MINUTES = 0 no round is ever started (the counter stays
\* 0, no behaviour is chosen or executed, no scroll, move or click is in
\* flight), and a run in which no setup step and no navigation failed and no
\* interrupt came exits with status 0 after one cleanup.
C7_ZeroDuration ==
    config.duration_minutes = 0 =>
        /\ pc \notin RoundPcs
        /\ interaction_count = 0
        /\ chosen = <<>>
        /\ executed = <<>>
        /\ \A c \in inflight : c.op \notin BehaviourOps
        /\ (pc = "exited" /\ exc = "none") => (cleanup_calls = 1 /\ exit_status = 0)

C7_Witness ==
    /\ config.duration_minutes = 0
    /\ pc = "exited"
    /\ exc = "none"
    /\ page
    /\ exit_status = 0
    /\ cleanup_calls = 1

\* C8 (as claimed): a run that received an operator interrupt has gone
\* through cleanup once and exits with status 0.
C8_InterruptExitsZero ==
    (pc = "exited" /\ interrupts > 0) => (cleanup_calls = 1 /\ exit_status = 0)

\* C9: at most one driver command is in flight; it is the command of the
\* await the coroutine is suspended on, and none is in flight during a
\* delay or between awaits; inside a round the behaviour being executed is
\* chosen[idx] and the behaviours begun so far are chosen[1..idx], in order.
C9_OneCommandInFlight ==
    /\ Cardinality(inflight) <= 1
    /\ pc \in CommandPcs => Cardinality(inflight) = 1
    /\ pc \notin CommandPcs => inflight = {}
    /\ pc \in InteractionPcs =>
          /\ idx \in 1..Len(chosen)
          /\ pc \in PcsOf(chosen[idx])
          /\ executed = SubSeq(chosen, 1, idx)
    /\ pc \notin InteractionPcs => executed = <<>>

\* the click of the behaviour chosen second is the one command in flight
C9_Witness ==
    /\ pc = "mouse_click"
    /\ idx = 2
    /\ inflight = {Cmd("click", px, py)}

\* C10: every run exits, and has been through cleanup when it does.
C10_ReachesDone == <>(pc = "exited" /\ cleanup_calls = 1)

\* a one-minute run whose loop ended and whose teardown closed everything
C10_Witness ==
    /\ pc = "exited"
    /\ config.duration_minutes = 1
    /\ failed_at = "none"
    /\ interrupts = 0
    /\ close_attempted = Resources

\* C11 (as claimed): an Exception aborts the run only when it was raised by
\* setup or by the navigation; none raised inside the loop does.
C11_OnlyNavigationAborts ==
    exc = "Exception" => failed_at \in SetupPcs \cup NavPcs

\* C11 (amended): an Exception raised by the reading pause is handled in
\* place: the handler of line 268 is entered, nothing propagates, the round
\* counter and the end timestamp keep their values, and after the handler's
\* delay of 1 to 3 seconds the loop is at its next time check, which alone
\* ends the loop, and only when the budget is exhausted.  An Exception
\* raised by the handler's own delay is not handled in place: it aborts the
\* run through one cleanup and the process, unless interrupted during the
\* cleanup, exits with status 1.
C11_LoopBodyErrorHandled ==
    /\ [](/\ exc = "Exception" => failed_at \in FatalPcs
          /\ failed_at \in HandlerPcs =>
                /\ pc \in TeardownPcs
                /\ cleanup_calls = 1
                /\ interrupts = 0 => exc = "Exception"
                /\ (interrupts = 0 /\ pc = "exited") => exit_status = 1)
    /\ [][/\ (pc = "reading_delay" /\ interrupts' = interrupts) =>
                /\ pc' \in {"loop_check", "error_delay"}
                /\ exc' = "none"
                /\ cleanup_calls' = 0
                /\ interaction_count' = interaction_count
                /\ end_time' = end_time
          /\ (pc = "error_delay" /\ interrupts' = interrupts /\ failed_at' = "none") =>
                /\ pc' = "loop_check"
                /\ \E g \in GammaDraws :
                       clock' = clock + HumanDelay(HandlerDelayMin, HandlerDelayMax, g)
                /\ exc' = "none"
                /\ interaction_count' = interaction_count
                /\ end_time' = end_time
          /\ pc' = "loop_done" => (pc = "loop_check" /\ clock >= end_time)]_vars

\* the handler is sleeping after the reading pause of the second round
\* raised, with budget left
C11_Witness ==
    /\ pc = "error_delay"
    /\ interaction_count = 2
    /\ exc = "none"
    /\ clock < end_time

\* C12: for min_seconds <= max_seconds and a draw >= 0, the delay that
\* _human_delay computes and sleeps lies in [min_seconds, max_seconds].
C12_DelayWithinBounds ==
    delay_call.slept =>
        /\ delay_call.min_seconds <= delay_call.max_seconds
        /\ delay_call.gamma >= 0
        /\ delay_call.min_seconds <= delay_call.delay
        /\ delay_call.delay <= delay_call.max_seconds
        /\ clock = delay_call.delay

\* a draw that carries min_seconds past max_seconds is capped at max_seconds
C12_Witness ==
    /\ delay_call.slept
    /\ delay_call.min_seconds < delay_call.max_seconds
    /\ delay_call.min_seconds + delay_call.gamma > delay_call.max_seconds
    /\ delay_call.delay = delay_call.max_seconds

\* C13: the proxy descriptor chromium.launch is called with is never
\* partial.  It is a proxy only when PROXY_HOST and PROXY_PORT are both set
\* (and is one whenever both are set and non-empty), its server is
\* http://host:port, and it carries a username exactly when it carries a
\* password, which is only when PROXY_USERNAME and PROXY_PASSWORD are both
\* set, with their values; with no proxy it carries nothing.
C13_NoPartialProxy ==
    LET ps == proxy_settings IN
    /\ ps.enabled => (env.PROXY_HOST.set /\ env.PROXY_PORT.set)
    /\ ps.enabled =>
          ps.server = HttpScheme \o env.PROXY_HOST.chars \o <<":">> \o env.PROXY_PORT.chars
    /\ ps.username.set <=> ps.password.set
    /\ ps.username.set =>
          /\ ps.enabled
          /\ env.PROXY_USERNAME.set /\ env.PROXY_PASSWORD.set
          /\ ps.username = env.PROXY_USERNAME
          /\ ps.password = env.PROXY_PASSWORD
    /\ ~ps.enabled => ps = NoProxy
    /\ (pc \in SetupPcs /\ Truthy(env.PROXY_HOST) /\ Truthy(env.PROXY_PORT)) => ps.enabled

\* launch is awaited with a proxy that carries no credentials, in an
\* environment that sets PROXY_USERNAME and not PROXY_PASSWORD
C13_Witness ==
    /\ pc = "launch"
    /\ proxy_settings.enabled
    /\ Truthy(env.PROXY_USERNAME)
    /\ ~env.PROXY_PASSWORD.set
    /\ ~proxy_settings.username.set
    /\ ~proxy_settings.password.set

\* DURATION_MINUTES, VIEWPORT_WIDTH or VIEWPORT_HEIGHT is set to a string
\* that is no integer
Malformed(e) ==
    \E name \in {"DURATION_MINUTES", "VIEWPORT_WIDTH", "VIEWPORT_HEIGHT"} :
        e[name].set /\ e[name].chars \in MalformedInts

\* C14: in a run whose environment holds a malformed integer the process is
\* either still constructing the simulator or has exited with status 1; no
\* driver command was ever issued (nothing in flight, no browser, context
\* or page, no round, no cleanup, no sleep).
C14_MalformedConfigIsFatal ==
    Malformed(env) =>
        /\ pc \in {"construct", "exited"}
        /\ config = NoConfig
        /\ inflight = {}
        /\ ~browser /\ ~context /\ ~page
        /\ close_attempted = {}
        /\ cleanup_calls = 0
        /\ interaction_count = 0
        /\ clock = 0
        /\ pc = "exited" => exit_status = 1

\* the process has exited on a malformed VIEWPORT_HEIGHT, the duration
\* being well-formed
C14_Witness ==
    /\ pc = "exited"
    /\ exit_status = 1
    /\ env.DURATION_MINUTES = Val(<<"1">>)
    /\ env.VIEWPORT_HEIGHT.set
    /\ env.VIEWPORT_HEIGHT.chars \in MalformedInts

\* the positions inside the while loop of browse_like_human, and after it
LoopPcs == RoundPcs \cup HandlerPcs \cup {"loop_check", "loop_done"}

\* C15: while the session loop runs, the end timestamp is start + duration,
\* it is assigned by no step but the one that enters the loop, and the
\* counter is never negative; a step of the loop that ends a round (leaves
\* the behaviours of the round for the reading pause or the time check)
\* adds exactly 1 to the counter, however many behaviours the round had and
\* whether they failed, and every other step of the loop leaves it alone.
C15_CounterAndEndTime ==
    /\ [](pc \in LoopPcs =>
            /\ end_time = EndTime(start_time, config.duration_minutes)
            /\ interaction_count >= 0)
    /\ [][/\ (pc \in LoopPcs /\ pc' \in LoopPcs) =>
                /\ end_time' = end_time
                /\ start_time' = start_time
                /\ interaction_count' >= interaction_count
                /\ IF pc \in InteractionPcs /\ pc' \notin InteractionPcs
                       THEN interaction_count' = interaction_count + 1
                       ELSE interaction_count' = interaction_count
          /\ (end_time' # end_time /\ pc' \notin TeardownPcs) =>
                (pc = "warmup_delay" /\ pc' = "loop_check")]_vars

\* two rounds are over in which every behaviour failed at once (no sleep
\* has elapsed since the loop began): the counter is 2
C15_Witness ==
    /\ pc = "loop_check"
    /\ config.duration_minutes = 1
    /\ interaction_count = 2
    /\ clock = start_time

\* the progress lines due after n rounds: one for every multiple of
\* ProgressEvery from ProgressEvery to n
ProgressLinesFor(log, n) ==
    /\ Len(log) = n \div ProgressEvery
    /\ \A i \in 1..Len(log) : log[i] = i * ProgressEvery

\* C16: while the loop runs the progress lines logged are exactly those of
\* rounds 10, 20, ... up to the current round count, and no summary has been
\* logged; the step that completes round n logs a progress line if and only
\* if n is a positive multiple of 10, and no other step logs one; the
\* summary is logged by the step that ends the loop on an exhausted budget,
\* once, with the total number of rounds, and a run whose loop ended that
\* way has logged it.
C16_ProgressAndSummary ==
    /\ [](/\ pc \in LoopPcs => ProgressLinesFor(progress_log, interaction_count)
          /\ pc \in LoopPcs \ {"loop_done"} => summary_log = <<>>
          /\ pc = "loop_done" => summary_log = <<interaction_count>>
          /\ Len(summary_log) <= 1
          /\ summary_log # <<>> =>
                /\ pc \in TeardownPcs \cup {"loop_done"}
                /\ ProgressLinesFor(progress_log, summary_log[1])
          /\ (pc = "exited" /\ exc = "none") => Len(summary_log) = 1)
    /\ [][/\ interaction_count' = interaction_count + 1 =>
                progress_log' =
                    IF interaction_count' > 0 /\ interaction_count' % ProgressEvery = 0
                        THEN Append(progress_log, interaction_count')
                        ELSE progress_log
          /\ progress_log' # progress_log =>
                interaction_count' = interaction_count + 1
          /\ summary_log' # summary_log =>
                /\ pc = "loop_check"
                /\ clock >= end_time
                /\ pc' = "loop_done"
                /\ summary_log' = <<interaction_count>>]_vars

\* the loop has ended after more than 10 rounds: one progress line, for
\* round 10, and the summary with the total
C16_Witness ==
    /\ pc = "loop_done"
    /\ interaction_count > ProgressEvery
    /\ progress_log = <<ProgressEvery>>
    /\ summary_log = <<interaction_count>>

\* the step takes the delay of _human_delay(lo, hi)
Sleeps(lo, hi) == \E g \in GammaDraws : clock' = clock + HumanDelay(lo, hi, g)

\* what a step does in a pointer behaviour: the behaviour begins with the
\* move to the sampled (x, y); x and y stay what they are until the
\* behaviour is over; a click is issued at (x, y); after a click that has
\* returned comes the delay of 0.5 to 1.5 seconds, which ends the behaviour
PointerMoveThenClick ==
    /\ (pc' = "mouse_move" /\ pc # "mouse_move") =>
          (pc \notin PcsOf("pointer") /\ inflight' = {Cmd("move", px', py')})
    /\ (pc \in PcsOf("pointer") /\ pc' \in PcsOf("pointer") /\ pc' # "mouse_move") =>
          (px' = px /\ py' = py)
    /\ pc' = "mouse_click" =>
          (pc = "mouse_move_delay" /\ inflight' = {Cmd("click", px, py)})
    /\ (pc = "mouse_click" /\ pc' \in PcsOf("pointer") /\ pc' # "mouse_move") =>
          (pc' = "mouse_click_delay" /\ clock' = clock)
    /\ (pc = "mouse_click_delay" /\ interrupts' = interrupts) =>
          (pc' # "mouse_click_delay" /\ Sleeps(ClickDelayMin, ClickDelayMax))

\* C17 (as claimed): move, then click at the same position followed by the
\* 0.5 to 1.5 second delay; and an execution that takes the 0.3 to 1.0 second
\* delay after the move issues no click.
C17_MoveDelayOnlyWithoutClick ==
    [][/\ PointerMoveThenClick
       /\ pc = "mouse_move_delay" => pc' # "mouse_click"]_vars

\* C17 (amended): move, then click at the same position followed by the 0.5
\* to 1.5 second delay; the 0.3 to 1.0 second delay follows every move that
\* has returned, and a click is issued only by the step that ends that
\* delay, so it is taken in executions that click as in those that do not.
C17_MoveDelayAlways ==
    [][/\ PointerMoveThenClick
       /\ (pc = "mouse_move" /\ pc' \in PcsOf("pointer") /\ pc' # "mouse_move") =>
             (pc' = "mouse_move_delay" /\ clock' = clock)
       /\ (pc = "mouse_move_delay" /\ interrupts' = interrupts) =>
             (pc' # "mouse_move_delay" /\ Sleeps(MoveDelayMin, MoveDelayMax))
       /\ pc' = "mouse_click" =>
             (pc = "mouse_move_delay" /\ Sleeps(MoveDelayMin, MoveDelayMax))]_vars

\* the delay after a click is being slept; the clock is past the start of
\* the loop by at least the delay after the move
C17_Witness ==
    /\ pc = "mouse_click_delay"
    /\ px # py
    /\ interaction_count = 0
    /\ idx = 1
    /\ \E g \in GammaDraws : clock = start_time + HumanDelay(MoveDelayMin, MoveDelayMax, g)

PointerOps == {"move", "click"}

\* C18: every move or click in flight targets (x, y) with
\* 100 <= x <= width - 100 and 100 <= y <= height - 100, hence inside the
\* viewport; and with a viewport narrower or shorter than 200 no move or
\* click is ever in flight and no position of a pointer behaviour is
\* reached.
C18_PointerInsideMargin ==
    LET w == config.viewport_width
        h == config.viewport_height
    IN  /\ \A c \in inflight : c.op \in PointerOps =>
              /\ PointerMargin <= c.a /\ c.a <= w - PointerMargin
              /\ PointerMargin <= c.b /\ c.b <= h - PointerMargin
              /\ 0 < c.a /\ c.a < w
              /\ 0 < c.b /\ c.b < h
        /\ (w < 2 * PointerMargin \/ h < 2 * PointerMargin) =>
              /\ pc \notin PcsOf("pointer")
              /\ \A c \in inflight : c.op \notin PointerOps

\* in a viewport of 200 by 200 a click is in flight at the one position the
\* margin leaves
C18_Witness ==
    /\ config.viewport_width = 2 * PointerMargin
    /\ config.viewport_height = 2 * PointerMargin
    /\ pc = "mouse_click"
    /\ inflight = {Cmd("click", PointerMargin, PointerMargin)}

\* the resources cleanup looks at before it looks at r
ClosedBefore(r) ==
    CASE r = "page" -> {}
      [] r = "context" -> {"page"}
      [] r = "browser" -> {"page", "context"}

\* C19: a close is attempted on the context only after one was attempted on
\* the page, and on the browser only after one was attempted on the
\* context and on the page, for the resources that exist; a step attempts
\* at most one close, the close then in flight is that resource's, and it
\* is the close of the position reached.
C19_TeardownOrder ==
    /\ [](\A r \in close_attempted : \A q \in ClosedBefore(r) :
              IsSet(State, q) => q \in close_attempted)
    /\ [][close_attempted' # close_attempted =>
             \E r \in Resources :
                /\ r \notin close_attempted
                /\ close_attempted' = close_attempted \cup {r}
                /\ \A q \in ClosedBefore(r) : IsSet(State, q) => q \in close_attempted
                /\ pc' = ClosePc(r)
                /\ inflight' = {Close(r)}]_vars

\* the browser is being closed after the page and the context
C19_Witness ==
    /\ pc = "close_browser"
    /\ page /\ context /\ browser
    /\ close_attempted = Resources
    /\ inflight = {Close("browser")}

\* C20 (as claimed): in a run without interrupt in which launch, new_context
\* or new_page raised, by the time the process exits cleanup has run once,
\* a close was attempted on exactly the resources that had been created, no
\* round was executed and no time was spent browsing, and the exit status
\* is not 0.
C20_SetupFailureClosesCreated ==
    (pc = "exited" /\ failed_at \in {"launch", "new_context", "new_page"}
                   /\ interrupts = 0) =>
        /\ cleanup_calls = 1
        /\ close_attempted = {r \in Resources : IsSet(State, r)}
        /\ progress_log = <<>>
        /\ summary_log = <<>>
        /\ clock = 0
        /\ exit_status \notin {-1, 0}

====
